---- MODULE Spec2Model ----
(***************************************************************************)
(* Bounds-checked accumulation of NumericOverflows.cpp: add_numbers and    *)
(* subtract_numbers over a bounded integer type T, and the per-type        *)
(* drivers test_overflow / test_underflow.                                 *)
(*                                                                         *)
(* A type T is the record of what std::numeric_limits<T> and the language  *)
(* give the templates: lowest, max, and whether T is narrower than int     *)
(* (its operands are then promoted to int before + - < >).  Machine        *)
(* arithmetic is modelled with its width: an unsigned result wraps, a      *)
(* narrow result is computed in int and converted back on assignment, a    *)
(* signed result out of range is undefined behaviour (the build either     *)
(* wraps or traps).                                                        *)
(***************************************************************************)
EXTENDS Integers, Sequences, FiniteSets, TLC

\* width in bits of the exhaustively explored integer types
Width == 4
\* largest step count of an exhaustively explored call
MaxCount == 3

\* std::numeric_limits<int>::max()
Int32Max == 2147483647
\* const unsigned long int steps = 5 of both drivers
DriverSteps == 5

Pow2(n) == 2 ^ n

SignedT(nm, w, nar) ==
    [name |-> nm, lowest |-> -Pow2(w - 1), max |-> Pow2(w - 1) - 1, narrow |-> nar]
UnsignedT(nm, w, nar) ==
    [name |-> nm, lowest |-> 0, max |-> Pow2(w) - 1, narrow |-> nar]

\* template parameter T of the two routines: W-bit types of every kind
TemplateTypes ==
    { SignedT("sN", Width, TRUE), SignedT("sF", Width, FALSE),
      UnsignedT("uN", Width, TRUE), UnsignedT("uF", Width, FALSE) }

Int8 == SignedT("char", 8, TRUE)
UInt8 == UnsignedT("unsigned char", 8, TRUE)
Int16 == SignedT("short int", 16, TRUE)
UInt16 == UnsignedT("unsigned short int", 16, TRUE)
Int32 == [name |-> "int", lowest |-> -Int32Max - 1, max |-> Int32Max, narrow |-> FALSE]

\* the integer instantiations of the drivers whose values fit the checker's
\* integers (the 64-bit and unsigned 32-bit instantiations do not)
DriverTypes == { Int8, UInt8, Int16, UInt16, Int32 }

IsSigned(t) == t.lowest < 0

\* the number of values of t, for types narrower than 32 bits
Modulus(t) == t.max - t.lowest + 1

\* conversion of an int to the narrow type t on assignment (modular)
Convert(t, x) == ((x - t.lowest) % Modulus(t)) + t.lowest

\* does the mathematical a + b lie in [lowest, max] (computed without leaving
\* the checker's integers; a, b are values of t when t is not narrow)
AddFits(t, a, b) ==
    IF t.narrow THEN (a + b >= t.lowest /\ a + b <= t.max)
    ELSE IF b >= 0 THEN a <= t.max - b ELSE a >= t.lowest - b

SubFits(t, a, b) ==
    IF t.narrow THEN (a - b >= t.lowest /\ a - b <= t.max)
    ELSE IF b >= 0 THEN a >= t.lowest + b ELSE a <= t.max + b

\* a + b as the machine computes it in type t (two's complement wrap)
WrapAdd(t, a, b) ==
    IF AddFits(t, a, b) THEN a + b
    ELSE IF b >= 0 THEN ((a - t.max) + (b - 1)) + t.lowest
    ELSE ((a - t.lowest) + (b + 1)) + t.max

WrapSub(t, a, b) ==
    IF SubFits(t, a, b) THEN a - b
    ELSE IF b >= 0 THEN ((a - t.lowest) - (b - 1)) + t.max
    ELSE ((a - t.max) - (b + 1)) + t.lowest

\* the value and exactness of the expression a + b on operands of type t:
\* a narrow t is promoted, so the int result is exact; otherwise it wraps
MachAdd(t, a, b) ==
    [val |-> IF t.narrow THEN a + b ELSE WrapAdd(t, a, b),
     exact |-> AddFits(t, a, b)]

MachSub(t, a, b) ==
    [val |-> IF t.narrow THEN a - b ELSE WrapSub(t, a, b),
     exact |-> SubFits(t, a, b)]

\* a signed operation of rank >= int whose result is out of range is undefined
Undefined(t, exact) == IsSigned(t) /\ ~t.narrow /\ ~exact

\* CalcResult<T> out{}; out.value = start;
CalcResult(v) == [value |-> v, success |-> TRUE]

\* ---- mutants of the range checks (plausible slips) ----

\* boundary taken as unsafe: increment >= 0 and value >= maxVal - increment
add_check_inclusive(t, value, inc) ==
    IF inc >= 0
    THEN LET b == MachSub(t, t.max, inc) IN [unsafe |-> value >= b.val, exact |-> b.exact]
    ELSE LET b == MachSub(t, t.lowest, inc) IN [unsafe |-> value < b.val, exact |-> b.exact]

\* the overflow is tested after performing the addition
add_check_postadd(t, value, inc) ==
    LET s == MachAdd(t, value, inc)
    IN  IF inc > 0 THEN [unsafe |-> s.val > t.max, exact |-> s.exact]
        ELSE IF inc < 0 THEN [unsafe |-> s.val < t.lowest, exact |-> s.exact]
        ELSE [unsafe |-> FALSE, exact |-> TRUE]

\* only the upper limit is guarded
add_check_upper_only(t, value, inc) ==
    IF inc > 0
    THEN LET b == MachSub(t, t.max, inc) IN [unsafe |-> value > b.val, exact |-> b.exact]
    ELSE [unsafe |-> FALSE, exact |-> TRUE]

\* the upper bound compared with >=
add_check_inclusive_pos(t, value, inc) ==
    IF inc > 0
    THEN LET b == MachSub(t, t.max, inc) IN [unsafe |-> value >= b.val, exact |-> b.exact]
    ELSE IF inc < 0
    THEN LET b == MachSub(t, t.lowest, inc) IN [unsafe |-> value < b.val, exact |-> b.exact]
    ELSE [unsafe |-> FALSE, exact |-> TRUE]

\* lines 45-62: is the next addition unsafe, and was the bound computed exactly
add_check(t, value, inc) ==
    IF inc > 0
    THEN LET b == MachSub(t, t.max, inc) IN [unsafe |-> value > b.val, exact |-> b.exact]
    ELSE IF inc < 0
    THEN LET b == MachSub(t, t.lowest, inc) IN [unsafe |-> value < b.val, exact |-> b.exact]
    ELSE [unsafe |-> FALSE, exact |-> TRUE]

\* the lower bound compared with <=
sub_check_inclusive(t, value, dec) ==
    IF dec > 0
    THEN LET b == MachAdd(t, t.lowest, dec) IN [unsafe |-> value <= b.val, exact |-> b.exact]
    ELSE IF dec < 0
    THEN LET b == MachAdd(t, t.max, dec) IN [unsafe |-> value > b.val, exact |-> b.exact]
    ELSE [unsafe |-> FALSE, exact |-> TRUE]

\* the bounds copied from add_numbers without flipping the sign
sub_check_unflipped(t, value, dec) ==
    IF dec > 0
    THEN LET b == MachSub(t, t.lowest, dec) IN [unsafe |-> value < b.val, exact |-> b.exact]
    ELSE IF dec < 0
    THEN LET b == MachSub(t, t.max, dec) IN [unsafe |-> value > b.val, exact |-> b.exact]
    ELSE [unsafe |-> FALSE, exact |-> TRUE]

\* the negative decrement is not guarded
sub_check_lower_only(t, value, dec) ==
    IF dec > 0
    THEN LET b == MachAdd(t, t.lowest, dec) IN [unsafe |-> value < b.val, exact |-> b.exact]
    ELSE [unsafe |-> FALSE, exact |-> TRUE]

\* the underflow is tested after performing the subtraction
sub_check_postsub(t, value, dec) ==
    LET d == MachSub(t, value, dec)
    IN  IF dec > 0 THEN [unsafe |-> d.val < t.lowest, exact |-> d.exact]
        ELSE IF dec < 0 THEN [unsafe |-> d.val > t.max, exact |-> d.exact]
        ELSE [unsafe |-> FALSE, exact |-> TRUE]

\* lines 97-115: is the next subtraction unsafe, and was the bound exact
sub_check(t, value, dec) ==
    IF dec > 0
    THEN LET b == MachAdd(t, t.lowest, dec) IN [unsafe |-> value < b.val, exact |-> b.exact]
    ELSE IF dec < 0
    THEN LET b == MachAdd(t, t.max, dec) IN [unsafe |-> value > b.val, exact |-> b.exact]
    ELSE [unsafe |-> FALSE, exact |-> TRUE]

\* the outcomes of one evaluation: the normal one, and a trap when an
\* operation of the evaluation was undefined
Outcomes(t, normal, exact) ==
    {normal} \cup
    (IF Undefined(t, exact) THEN {[normal EXCEPT !.pc = "trap"]} ELSE {})

\* mutant: a rejected step marks the failure but the loop goes on
add_iter_no_return(t, o, inc) ==
    LET chk == add_check(t, o.value, inc)
        upd == MachAdd(t, o.value, inc)
        stored == IF t.narrow THEN Convert(t, upd.val) ELSE upd.val
        exact == chk.exact /\ upd.exact
    IN  Outcomes(t, [out |-> [value |-> stored,
                              success |-> o.success /\ ~chk.unsafe],
                     pc |-> "loop", wrapped |-> ~exact], exact)

\* one iteration of the loop of add_numbers (lines 38-64) on the running
\* result o: the set of its outcomes [out, pc, wrapped]
add_iter(t, o, inc) ==
    LET chk == add_check(t, o.value, inc)
        upd == MachAdd(t, o.value, inc)
        stored == IF t.narrow THEN Convert(t, upd.val) ELSE upd.val
    IN  IF chk.unsafe
        THEN Outcomes(t, [out |-> [o EXCEPT !.success = FALSE],
                          pc |-> "done", wrapped |-> ~chk.exact], chk.exact)
        ELSE Outcomes(t, [out |-> [o EXCEPT !.value = stored],
                          pc |-> "loop", wrapped |-> ~(chk.exact /\ upd.exact)],
                      chk.exact /\ upd.exact)

\* one iteration of the loop of subtract_numbers (lines 89-117)
sub_iter(t, o, dec) ==
    LET chk == sub_check(t, o.value, dec)
        upd == MachSub(t, o.value, dec)
        stored == IF t.narrow THEN Convert(t, upd.val) ELSE upd.val
    IN  IF chk.unsafe
        THEN Outcomes(t, [out |-> [o EXCEPT !.success = FALSE],
                          pc |-> "done", wrapped |-> ~chk.exact], chk.exact)
        ELSE Outcomes(t, [out |-> [o EXCEPT !.value = stored],
                          pc |-> "loop", wrapped |-> ~(chk.exact /\ upd.exact)],
                      chk.exact /\ upd.exact)

\* add_numbers as a function: the set of [out, pc] it can end with
RECURSIVE add_loop(_, _, _, _, _)
add_loop(t, o, inc, n, k) ==
    IF k >= n THEN {[out |-> o, pc |-> "done"]}
    ELSE UNION { IF r.pc = "loop" THEN add_loop(t, r.out, inc, n, k + 1)
                 ELSE {[out |-> r.out, pc |-> r.pc]} : r \in add_iter(t, o, inc) }

add_numbers(t, s, inc, n) == add_loop(t, CalcResult(s), inc, n, 0)

RECURSIVE sub_loop(_, _, _, _, _)
sub_loop(t, o, dec, n, k) ==
    IF k >= n THEN {[out |-> o, pc |-> "done"]}
    ELSE UNION { IF r.pc = "loop" THEN sub_loop(t, r.out, dec, n, k + 1)
                 ELSE {[out |-> r.out, pc |-> r.pc]} : r \in sub_iter(t, o, dec) }

subtract_numbers(t, s, dec, n) == sub_loop(t, CalcResult(s), dec, n, 0)

\* ---- the state of one run ----
VARIABLES
    caller,     \* "call": one call of a routine; else the driver running
    T,          \* the template parameter
    fn,         \* "add" (add_numbers) or "sub" (subtract_numbers)
    start,      \* parameter start
    increment,  \* parameter increment / decrement
    steps,      \* parameter steps
    i,          \* loop counter: the iterations completed
    out,        \* the CalcResult<T> being built
    pc,         \* "loop", "done" (returned) or "trap"
    wrapped,    \* some evaluated operation left [lowest, max]
    run,        \* driver: 1 = first call, 2 = second call, 3 = both printed
    r1, r2      \* driver: the results of the two calls

vars == <<caller, T, fn, start, increment, steps, i, out, pc, wrapped, run, r1, r2>>

\* a call add_numbers<T>(s, inc, n) or subtract_numbers<T>(s, inc, n) entered
Enter(c, t, f, s, inc, n) ==
    /\ caller = c /\ T = t /\ fn = f
    /\ start = s /\ increment = inc /\ steps = n
    /\ i = 0 /\ out = CalcResult(s) /\ pc = "loop" /\ wrapped = FALSE

InitCall ==
    \E t \in TemplateTypes, f \in {"add", "sub"}, n \in 0..MaxCount :
      \E s \in t.lowest..t.max, inc \in t.lowest..t.max :
        /\ Enter("call", t, f, s, inc, n)
        /\ run = 0 /\ r1 = CalcResult(0) /\ r2 = CalcResult(0)

\* test_overflow<T>() up to its first call (lines 152-168)
InitOverflow ==
    \E t \in DriverTypes :
        /\ Enter("test_overflow", t, "add", 0, t.max \div DriverSteps, DriverSteps)
        /\ run = 1 /\ r1 = CalcResult(0) /\ r2 = CalcResult(0)

\* test_underflow<T>() up to its first call (lines 215-231)
InitUnderflow ==
    \E t \in DriverTypes :
        /\ Enter("test_underflow", t, "sub", t.max, t.max \div DriverSteps, DriverSteps)
        /\ run = 1 /\ r1 = CalcResult(0) /\ r2 = CalcResult(0)

Init == InitCall \/ InitOverflow \/ InitUnderflow

Iterate(r) ==
    /\ out' = r.out
    /\ pc' = r.pc
    /\ wrapped' = (wrapped \/ r.wrapped)
    /\ i' = IF r.pc = "loop" THEN i + 1 ELSE i
    /\ UNCHANGED <<caller, T, fn, start, increment, steps, run, r1, r2>>

\* one pass through the body of the for loop of add_numbers
AddIterate ==
    /\ fn = "add" /\ pc = "loop" /\ i < steps
    /\ \E r \in add_iter(T, out, increment) : Iterate(r)

\* return out (line 67)
AddReturn ==
    /\ fn = "add" /\ pc = "loop" /\ i >= steps
    /\ pc' = "done"
    /\ UNCHANGED <<caller, T, fn, start, increment, steps, i, out, wrapped, run, r1, r2>>

SubIterate ==
    /\ fn = "sub" /\ pc = "loop" /\ i < steps
    /\ \E r \in sub_iter(T, out, increment) : Iterate(r)

\* return out (line 120)
SubReturn ==
    /\ fn = "sub" /\ pc = "loop" /\ i >= steps
    /\ pc' = "done"
    /\ UNCHANGED <<caller, T, fn, start, increment, steps, i, out, wrapped, run, r1, r2>>

\* the driver takes r1 and makes the second call with steps + 1
SecondCall(c) ==
    /\ caller = c /\ run = 1 /\ pc = "done"
    /\ r1' = out
    /\ run' = 2
    /\ steps' = DriverSteps + 1
    /\ i' = 0 /\ out' = CalcResult(start) /\ pc' = "loop"
    /\ UNCHANGED <<caller, T, fn, start, increment, wrapped, r2>>

\* the driver takes r2 and prints it
Finish(c) ==
    /\ caller = c /\ run = 2 /\ pc = "done"
    /\ r2' = out
    /\ run' = 3
    /\ UNCHANGED <<caller, T, fn, start, increment, steps, i, out, pc, wrapped, r1>>

\* test_overflow: lines 168-182 and 182-188
OverflowSecond == SecondCall("test_overflow")
OverflowFinish == Finish("test_overflow")
\* test_underflow: lines 231-245 and 245-251
UnderflowSecond == SecondCall("test_underflow")
UnderflowFinish == Finish("test_underflow")

Next ==
    \/ AddIterate
    \/ AddReturn
    \/ SubIterate
    \/ SubReturn
    \/ OverflowSecond
    \/ OverflowFinish
    \/ UnderflowSecond
    \/ UnderflowFinish

Spec == Init /\ [][Next]_vars

TypeOK ==
    /\ caller \in {"call", "test_overflow", "test_underflow"}
    /\ T \in TemplateTypes \cup DriverTypes
    /\ fn \in {"add", "sub"}
    /\ pc \in {"loop", "done", "trap"}
    /\ i \in 0..steps
    /\ out.success \in BOOLEAN
    /\ wrapped \in BOOLEAN
    /\ run \in 0..3

\* ---- properties ----

InRange(t, x) == x >= t.lowest /\ x <= t.max

\* the types on which the unbounded reference start +- increment * j can be
\* evaluated (32-bit operands would leave the checker's integers)
Checked(t) == t.max < Int32Max

\* the mathematical partial sums
AddSum(j) == start + increment * j
SubSum(j) == start - increment * j

\* C1: when every partial sum start + increment*j, j = 0..steps, is in
\* [lowest, max], add_numbers returns success = true and
\* value = start + increment*steps.
C1_NoOverflowExact ==
    (pc = "done" /\ fn = "add" /\ Checked(T)
        /\ \A j \in 0..steps : InRange(T, AddSum(j)))
    => (out.success /\ out.value = AddSum(steps))

C1_Witness ==
    /\ pc = "done" /\ fn = "add" /\ caller = "call"
    /\ steps = MaxCount /\ increment > 0 /\ start < 0
    /\ out.success /\ out.value = T.max

\* iteration k (0-indexed) is the first whose result leaves the range
AddFirstViolation(k) ==
    /\ k < steps
    /\ \A j \in 0..k : InRange(T, AddSum(j))
    /\ ~InRange(T, AddSum(k + 1))

\* C2: if k is the first iteration of add_numbers whose result would leave
\* [lowest, max], the call returns success = false and
\* value = start + increment*k, having completed exactly k iterations.
C2_FirstViolationStops ==
    (pc = "done" /\ fn = "add" /\ Checked(T))
    => \A k \in 0..steps :
         AddFirstViolation(k)
         => (~out.success /\ out.value = AddSum(k) /\ i = k)

C2_Witness ==
    /\ pc = "done" /\ fn = "add" /\ caller = "call"
    /\ AddFirstViolation(1) /\ steps = MaxCount
    /\ ~out.success /\ i = 1

\* the largest m <= steps with start - increment*j in range for j = 0..m
SubRef ==
    CHOOSE m \in 0..steps :
        /\ \A j \in 0..m : InRange(T, SubSum(j))
        /\ (m = steps \/ ~InRange(T, SubSum(m + 1)))

\* the rejection condition of subtract_numbers as the claim states it
SubRejects(v) ==
    \/ increment > 0 /\ v < T.lowest + increment
    \/ increment < 0 /\ v > T.max + increment

\* C3: subtract_numbers returns value = start - increment*m and
\* success = (m = steps) for the largest m <= steps whose partial differences
\* are all in range; a step is rejected exactly when the running total is
\* below lowest + step (step > 0) or above max + step (step < 0).
C3_SubtractReference ==
    (fn = "sub" /\ Checked(T) /\ pc # "trap")
    => /\ pc = "done" => ( /\ out.value = SubSum(SubRef)
                           /\ out.success = (SubRef = steps) )
       /\ (pc = "done" /\ ~out.success) => SubRejects(out.value)
       /\ \A j \in 0..(i - 1) : ~SubRejects(SubSum(j))

C3_Witness ==
    /\ pc = "done" /\ fn = "sub" /\ caller = "call"
    /\ increment < 0 /\ steps = MaxCount
    /\ SubRef = 2 /\ ~out.success /\ out.value = SubSum(2)

\* C4: for a signed T and a step other than lowest, subtract_numbers(start,
\* step, count) returns what add_numbers(start, -step, count) returns.
C4_Symmetry ==
    (pc = "done" /\ fn = "sub" /\ IsSigned(T) /\ increment # T.lowest)
    => add_numbers(T, start, -increment, steps) = {[out |-> out, pc |-> "done"]}

C4_Witness ==
    /\ pc = "done" /\ fn = "sub" /\ caller = "call"
    /\ IsSigned(T) /\ increment < 0 /\ increment # T.lowest
    /\ ~out.success /\ i >= 1
    /\ add_numbers(T, start, -increment, steps) = {[out |-> out, pc |-> "done"]}

\* C5: in every state of either routine the running total is in
\* [lowest, max] and equals start + increment*i (add) or start - increment*i
\* (subtract), i the number of completed iterations.
C5_ValueInvariant ==
    /\ pc # "trap"
    /\ InRange(T, out.value)
    /\ Checked(T) => out.value = (IF fn = "add" THEN AddSum(i) ELSE SubSum(i))

C5_Witness ==
    /\ pc = "done" /\ fn = "add" /\ caller = "call"
    /\ increment < 0 /\ i >= 2 /\ ~out.success
    /\ out.value = AddSum(i)

\* C6: with step 0 both routines return success = true and value = start
\* for every start and count.
C6_ZeroStep ==
    (pc = "done" /\ increment = 0)
    => (out.success /\ out.value = start /\ i = steps)

C6_Witness ==
    /\ pc = "done" /\ fn = "add" /\ increment = 0
    /\ start = T.max /\ steps = MaxCount
    /\ out.success /\ out.value = start

\* C7: for every type of the driver, test_underflow's first call (5 steps)
\* succeeds and its second call (6 steps) fails.
C7_UnderflowScenarioAllTypes ==
    (caller = "test_underflow" /\ run = 3)
    => (r1.success /\ ~r2.success)

\* C8: test_overflow's first call succeeds with value 5*(max/5) and its
\* second call fails with that same value; for int these are
\* increment 429496729 and value 2147483645.
C8_OverflowScenario ==
    (caller = "test_overflow" /\ run = 3)
    => /\ r1 = [value |-> DriverSteps * (T.max \div DriverSteps), success |-> TRUE]
       /\ r2 = [value |-> DriverSteps * (T.max \div DriverSteps), success |-> FALSE]
       /\ T.max = Int32Max => (increment = 429496729 /\ r1.value = 2147483645)

C8_Witness ==
    /\ caller = "test_overflow" /\ run = 3 /\ T = Int32
    /\ r1.success /\ ~r2.success /\ r2.value = 2147483645

\* C9: for unsigned char, subtract_numbers(255, 51, 5) returns (0, true) and
\* subtract_numbers(255, 51, 6) returns (0, false); for an unsigned type a
\* positive decrement is rejected exactly when the running total is smaller
\* than the decrement, and the total never wraps below 0.
C9_UnsignedUnderflow ==
    /\ (caller = "test_underflow" /\ run = 3 /\ T = UInt8)
       => /\ start = 255 /\ increment = 51
          /\ r1 = [value |-> 0, success |-> TRUE]
          /\ r2 = [value |-> 0, success |-> FALSE]
    /\ (fn = "sub" /\ ~IsSigned(T) /\ increment > 0)
       => /\ out.value = SubSum(i)
          /\ (pc = "done" /\ ~out.success) => out.value < increment
          /\ \A j \in 0..(i - 1) : SubSum(j) >= increment
          /\ (pc = "done" /\ out.success) => i = steps

C9_Witness ==
    /\ caller = "test_underflow" /\ run = 3 /\ T = UInt8
    /\ r1.success /\ r1.value = 0 /\ ~r2.success /\ r2.value = 0

\* C10: no expression the routines evaluate (the four bounds and the
\* executed updates) has a mathematical result outside [lowest, max], for
\* every start and step of T, lowest and max included.
C10_NoWrap == ~wrapped /\ pc # "trap"

C10_Witness ==
    /\ pc = "done" /\ fn = "sub" /\ caller = "call"
    /\ IsSigned(T) /\ ~T.narrow /\ increment = T.lowest
    /\ i >= 1 /\ ~wrapped
====
